---- MODULE Spec2Model ----
(***************************************************************************)
(* Model of the model-discovery hook of openastra,                         *)
(*   src/frontend/lib/hooks/use-available-models.tsx                       *)
(* fetchModelsByProvider (one provider listing, wrapped in React's cache)  *)
(* and useAvailableModels (the effect that fans out over the configured    *)
(* connections and publishes the flat catalog).                            *)
(*                                                                         *)
(* Strings are sequences of symbols.  The symbol "/" is the separator the  *)
(* code concatenates and splits on; every other symbol stands for a        *)
(* non-empty piece of text without "/".                                    *)
(***************************************************************************)
EXTENDS Integers, Sequences, FiniteSets, TLC

\* ------------------------------------------------------------------ bounds
\* passes (runs of the effect) in one behaviour of Spec
MaxPasses == 2
\* connections in the settings value of SpecPass
MaxConns == 2
\* entries of the 'models' field of one /api/tags answer in SpecPass
MaxNames == 2

\* ------------------------------------------------------------ input domains
ConnIds == { <<"a">>, <<"a", "/", "b">> }
Types == { "openai", "groq", "ollama", "other" }
Urls == { "u" }
\* names an endpoint may list
ModelNames == { <<"m">>, <<"b", "/", "m">> }

SeqsUpTo(S, n) == UNION { [1..k -> S] : k \in 0..n }

\* A connection object.  Two objects with the same id, type and url but a
\* different copy number are equal-valued copies (distinct object identities).
PassConn == [id : ConnIds, type : Types, url : Urls, copy : {1}]

Ollama1 == [id |-> <<"a">>, type |-> "ollama", url |-> "u", copy |-> 1]

\* the copy of Ollama1 that a settings update re-creates
Ollama1Copy == [id |-> <<"a">>, type |-> "ollama", url |-> "u", copy |-> 2]

OpenAi1 == [id |-> <<"a", "/", "b">>, type |-> "openai", url |-> "u", copy |-> 1]

Other1 == [id |-> <<"a">>, type |-> "other", url |-> "u", copy |-> 1]

Conn == PassConn \cup { Ollama1Copy }

ConnValue(c) == [id |-> c.id, type |-> c.type, url |-> c.url]

\* settings values of SpecPass: every list of up to MaxConns connections
ConnLists == SeqsUpTo(PassConn, MaxConns)

\* settings values the settings store delivers over the hook's lifetime in Spec
SettingsValues ==
    { <<>>, <<Ollama1>>, <<Ollama1Copy>>, <<OpenAi1>>,
      <<Ollama1, OpenAi1>>, <<Other1, OpenAi1>> }

NameLists == SeqsUpTo(ModelNames, MaxNames)

\* ------------------------------------------------------------ pure helpers
Min(a, b) == IF a < b THEN a ELSE b

Range(s) == { s[i] : i \in DOMAIN s }

RECURSIVE Flat(_)
\* Array.prototype.flat() of an array of arrays
Flat(ss) == IF ss = <<>> THEN <<>> ELSE Head(ss) \o Flat(Tail(ss))

RECURSIVE Split(_)
\* String.prototype.split('/') without a limit: every piece between separators
Split(s) ==
    IF \A i \in DOMAIN s : s[i] # "/"
    THEN <<s>>
    ELSE LET i == CHOOSE k \in DOMAIN s :
                     s[k] = "/" /\ \A j \in 1..(k - 1) : s[j] # "/"
         IN <<SubSeq(s, 1, i - 1)>> \o Split(SubSeq(s, i + 1, Len(s)))

\* String.prototype.split('/', limit): the first `limit` pieces, the rest dropped
SplitLimit(s, limit) ==
    LET parts == Split(s) IN SubSeq(parts, 1, Min(limit, Len(parts)))

Undefined == <<"undefined">>

\* record.id.split('/', 2)[1]
DisplayName(id) ==
    LET parts == SplitLimit(id, 2)
    IN IF Len(parts) >= 2 THEN parts[2] ELSE Undefined

\* connection.id + '/' + name
ModelId(connection, name) == connection.id \o <<"/">> \o name

OpenAiNames ==
    << <<"gpt-3.5-turbo-0125">>, <<"gpt-4-turbo">>,
       <<"gpt-3.5-turbo">>, <<"gpt-4o-mini">> >>

GroqNames ==
    << <<"llama3-8b-8192">>, <<"llama3-70b-8192">>,
       <<"mixtral-8x7b-32768">>, <<"gemma-7b-it">> >>

\* mutant: the records come out in reverse order
MapRecords_reversed(connection, names) ==
    [i \in 1..Len(names) |->
        [id |-> ModelId(connection, names[Len(names) + 1 - i]),
         connection |-> connection]]

\* records.map(model => ({ id: connection.id + '/' + model.name, connection }))
MapRecords(connection, names) ==
    [i \in 1..Len(names) |->
        [id |-> ModelId(connection, names[i]), connection |-> connection]]

\* mutant: the two fixed catalogs attached to the wrong case
StaticModels_swapped(connection) ==
    IF connection.type = "openai"
    THEN [i \in 1..Len(GroqNames) |->
            [id |-> ModelId(connection, GroqNames[i]), connection |-> connection]]
    ELSE [i \in 1..Len(OpenAiNames) |->
            [id |-> ModelId(connection, OpenAiNames[i]), connection |-> connection]]

\* the array literal of a fixed-catalog case
StaticModels(connection) ==
    IF connection.type = "openai"
    THEN MapRecords(connection, OpenAiNames)
    ELSE MapRecords(connection, GroqNames)

\* (await fetchModelsByProvider(connection)).map(record =>
\*     ({ ...record, name: record.id.split('/', 2)[1] }))
WithNames(records) ==
    [i \in 1..Len(records) |->
        [id |-> records[i].id, connection |-> records[i].connection,
         name |-> DisplayName(records[i].id)]]

\* ------------------------------------------------------------------- state
VARIABLES
    memoizing,        \* whether this build's cache() memoizes, or is the pass-through wrapper
    settings,         \* settings?.data?.general?.connections || []  as last rendered
    effectPending,    \* the effect of the last render has not run yet
    started,          \* number of passes (fetchAvailableModels calls) started
    promises,         \* every promise fetchModelsByProvider's body has returned
    cached,           \* cache(): connection object -> index in promises, 0 = no entry
    passes,           \* passes whose Promise.all has not settled, oldest first
    completed,        \* history: one record per pass that has written the catalog
    availableModels,  \* the useState value the hook returns
    reqCount          \* history: fetch() calls issued, per connection object

vars == <<memoizing, settings, effectPending, started, promises, cached,
          passes, completed, availableModels, reqCount>>

\* A promise returned by the body of fetchModelsByProvider:
\*   st     "fetching" (awaiting fetch), "reading" (awaiting response.json()),
\*          "fulfilled" or "rejected"
\*   value  the Model records it is fulfilled with
\*   env    history: what the endpoint did ("none" while it has done nothing)
\*   answer history: the names the endpoint listed
Settled(connection, records) ==
    [connection |-> connection, st |-> "fulfilled", value |-> records,
     env |-> "none", answer |-> <<>>]

Suspended(connection) ==
    [connection |-> connection, st |-> "fetching", value |-> <<>>,
     env |-> "none", answer |-> <<>>]

\* mutant: the default case throws instead of returning []
fetchModelsByProvider_throws(connection) ==
    CASE connection.type \in {"openai", "groq"} ->
            Settled(connection, StaticModels(connection))
      [] connection.type = "ollama" -> Suspended(connection)
      [] OTHER -> [Settled(connection, <<>>) EXCEPT !.st = "rejected"]

\* the switch of fetchModelsByProvider up to its first await: the promise it returns
fetchModelsByProvider(connection) ==
    CASE connection.type \in {"openai", "groq"} ->
            Settled(connection, StaticModels(connection))
      [] connection.type = "ollama" -> Suspended(connection)
      [] OTHER -> Settled(connection, <<>>)

\* fetch(`${connection.data.url}/api/tags`) is reached only in the 'ollama' case
IssuesRequest(connection) == connection.type = "ollama"

\* cache(fn)(connection): a memoizing build answers a repeated call with the same
\* argument object from its table; the pass-through build calls fn every time
CacheHit(memo, table, connection) == memo /\ table[connection] # 0

\* one call of the cached function, threaded through the call state
\* cs = [promises, cached, reqCount, ids]
CachedCall(cs, connection) ==
    IF CacheHit(memoizing, cs.cached, connection)
    THEN [cs EXCEPT !.ids = Append(@, cs.cached[connection])]
    ELSE LET n == Len(cs.promises) + 1
         IN [promises |-> Append(cs.promises, fetchModelsByProvider(connection)),
             cached   |-> IF memoizing
                          THEN [cs.cached EXCEPT ![connection] = n]
                          ELSE cs.cached,
             reqCount |-> IF IssuesRequest(connection)
                          THEN [cs.reqCount EXCEPT ![connection] = @ + 1]
                          ELSE cs.reqCount,
             ids      |-> Append(cs.ids, n)]

RECURSIVE CallAll(_, _)
\* connections.map(async connection => ... fetchModelsByProvider(connection) ...):
\* every call is made, in list order, before the map returns
CallAll(cs, conns) ==
    IF conns = <<>> THEN cs
    ELSE CallAll(CachedCall(cs, Head(conns)), Tail(conns))

\* the continuation of `await fetch(...)`: on a Response go on to read the body,
\* on a transport failure the async function rejects
AfterFetch(prom, ok) ==
    [prom EXCEPT !.st = IF ok THEN "reading" ELSE "rejected"]

\* mutant: a missing 'models' field is read as an empty list (records || [])
AfterBody_lenient(prom, body) ==
    IF ~body.json THEN [prom EXCEPT !.st = "rejected"]
    ELSE [prom EXCEPT !.st = "fulfilled",
                      !.value = MapRecords(prom.connection, body.names)]

\* the continuation of `await response.json()`: json() rejects on a body that is
\* not JSON; records.map throws a TypeError when 'models' is missing
AfterBody(prom, body) ==
    IF ~body.json THEN [prom EXCEPT !.st = "rejected"]
    ELSE IF ~body.hasModels THEN [prom EXCEPT !.st = "rejected"]
    ELSE [prom EXCEPT !.st = "fulfilled",
                      !.value = MapRecords(prom.connection, body.names)]

\* mutant: Promise.allSettled-like waiting, every input settled before the pass goes on
PassOutcome_allSettled(pass, proms) ==
    IF \E i \in DOMAIN pass.proms : proms[pass.proms[i]].st \in {"fetching", "reading"}
    THEN "pending"
    ELSE IF \E i \in DOMAIN pass.proms : proms[pass.proms[i]].st = "rejected"
         THEN "rejected"
         ELSE "fulfilled"

\* Promise.all over the mapped promises of a pass: rejected as soon as one input
\* is rejected, fulfilled once all are fulfilled
PassOutcome(pass, proms) ==
    IF \E i \in DOMAIN pass.proms : proms[pass.proms[i]].st = "rejected"
    THEN "rejected"
    ELSE IF \A i \in DOMAIN pass.proms : proms[pass.proms[i]].st = "fulfilled"
         THEN "fulfilled"
         ELSE "pending"

\* models.flat() of the per-connection arrays, each record given its name
Catalog(pass, proms) ==
    Flat([i \in DOMAIN pass.proms |-> WithNames(proms[pass.proms[i]].value)])

\* the catch block: setAvailableModels([])
CatchResult(prev) == <<>>

\* mutant: failures caught per connection, the models of the others still published
PassResult_partial(pass, proms, prev) == Catalog(pass, proms)

\* the value the pass hands to setAvailableModels when its Promise.all settles
PassResult(pass, proms, prev) ==
    IF PassOutcome(pass, proms) = "fulfilled"
    THEN Catalog(pass, proms)
    ELSE CatchResult(prev)

\* mutant: a generation check, the result of an overtaken pass is discarded
Publish_latestOnly(pass, result, latest, prev) ==
    IF pass.gen = latest THEN result ELSE prev

\* setAvailableModels(result): applied whatever passes have started since
Publish(pass, result, latest, prev) == result

\* history record of a pass at the moment it writes the catalog
CompletionRecord(pass, proms, latest, prev) ==
    [gen     |-> pass.gen,
     conns   |-> pass.conns,
     sts     |-> [i \in DOMAIN pass.proms |-> proms[pass.proms[i]].st],
     envs    |-> [i \in DOMAIN pass.proms |-> proms[pass.proms[i]].env],
     values  |-> [i \in DOMAIN pass.proms |-> proms[pass.proms[i]].value],
     outcome |-> PassOutcome(pass, proms),
     latest  |-> latest,
     result  |-> PassResult(pass, proms, prev),
     wrote   |-> Publish(pass, PassResult(pass, proms, prev), latest, prev)]

RECURSIVE RunReactions(_, _, _, _)
\* the microtask drain after promises settle: every pass whose Promise.all is
\* settled runs its continuation, oldest pass first
\* acc = [live, done, models]
RunReactions(ps, proms, latest, acc) ==
    IF ps = <<>> THEN acc
    ELSE LET pass == Head(ps)
         IN IF PassOutcome(pass, proms) = "pending"
            THEN RunReactions(Tail(ps), proms, latest,
                              [acc EXCEPT !.live = Append(@, pass)])
            ELSE LET rec == CompletionRecord(pass, proms, latest, acc.models)
                 IN RunReactions(Tail(ps), proms, latest,
                                 [acc EXCEPT !.done = Append(@, rec),
                                             !.models = rec.wrote])

Drain(ps, proms, latest) ==
    LET acc == RunReactions(ps, proms, latest,
                   [live |-> <<>>, done |-> completed, models |-> availableModels])
    IN /\ passes' = acc.live
       /\ completed' = acc.done
       /\ availableModels' = acc.models

\* the state at mount, before the first effect has run
Mounted ==
    /\ memoizing \in BOOLEAN
    /\ effectPending = TRUE
    /\ started = 0
    /\ promises = <<>>
    /\ cached = [c \in Conn |-> 0]
    /\ passes = <<>>
    /\ completed = <<>>
    /\ availableModels = <<>>
    /\ reqCount = [c \in Conn |-> 0]

Init == settings \in SettingsValues /\ Mounted

\* useSettings() hands the component a new settings value: it re-renders and
\* the effect's dependency [settings] has changed
Render(conns) ==
    /\ ~effectPending
    /\ started < MaxPasses
    /\ settings' = conns
    /\ effectPending' = TRUE
    /\ UNCHANGED <<memoizing, started, promises, cached, passes, completed,
                   availableModels, reqCount>>

\* the effect body: fetchAvailableModels() up to its first suspension, and the
\* microtasks that follow
RunEffect ==
    /\ effectPending
    /\ LET cs == CallAll([promises |-> promises, cached |-> cached,
                          reqCount |-> reqCount, ids |-> <<>>], settings)
           pass == [gen |-> started + 1, conns |-> settings, proms |-> cs.ids]
       IN /\ promises' = cs.promises
          /\ cached' = cs.cached
          /\ reqCount' = cs.reqCount
          /\ Drain(Append(passes, pass), cs.promises, started + 1)
    /\ started' = started + 1
    /\ effectPending' = FALSE
    /\ UNCHANGED <<memoizing, settings>>

\* `await fetch(...)` settles: a Response arrived, or the transport failed
FetchSettles(p, ok) ==
    /\ promises[p].st = "fetching"
    /\ LET prom == [AfterFetch(promises[p], ok) EXCEPT
                       !.env = IF ok THEN "answered" ELSE "unreachable"]
           proms == [promises EXCEPT ![p] = prom]
       IN /\ promises' = proms
          /\ Drain(passes, proms, started)
    /\ UNCHANGED <<memoizing, settings, effectPending, started, cached, reqCount>>

NotJson == [json |-> FALSE, hasModels |-> FALSE, names |-> <<>>]

NoModels == [json |-> TRUE, hasModels |-> FALSE, names |-> <<>>]

Listing(ns) == [json |-> TRUE, hasModels |-> TRUE, names |-> ns]

\* what an endpoint can answer: a body that is not JSON, JSON without a 'models'
\* list, or JSON whose 'models' lists objects with these names
Bodies == { NotJson, NoModels } \cup { Listing(ns) : ns \in NameLists }

\* the answers drawn in Spec
HookBodies ==
    { NotJson, NoModels, Listing(<< <<"m">> >>),
      Listing(<< <<"m">>, <<"b", "/", "m">> >>) }

BodyKind(body) ==
    IF ~body.json THEN "notjson"
    ELSE IF ~body.hasModels THEN "nomodels" ELSE "listing"

\* `await response.json()` settles and the rest of the 'ollama' case runs
BodySettles(p, body) ==
    /\ promises[p].st = "reading"
    /\ LET prom == [AfterBody(promises[p], body) EXCEPT
                       !.env = BodyKind(body), !.answer = body.names]
           proms == [promises EXCEPT ![p] = prom]
       IN /\ promises' = proms
          /\ Drain(passes, proms, started)
    /\ UNCHANGED <<memoizing, settings, effectPending, started, cached, reqCount>>

Next ==
    \/ \E conns \in SettingsValues : Render(conns)
    \/ RunEffect
    \/ \E p \in DOMAIN promises, ok \in BOOLEAN : FetchSettles(p, ok)
    \/ \E p \in DOMAIN promises, body \in HookBodies : BodySettles(p, body)

\* the hook over its lifetime: renders with new settings values, passes, answers
Spec == Init /\ [][Next]_vars

InitPass == settings \in ConnLists /\ Mounted

NextPass ==
    \/ RunEffect
    \/ \E p \in DOMAIN promises, ok \in BOOLEAN : FetchSettles(p, ok)
    \/ \E p \in DOMAIN promises, body \in Bodies : BodySettles(p, body)

\* one resolution pass over any settings value, with any answers
SpecPass == InitPass /\ [][NextPass]_vars

\* ------------------------------------------------------------------ claims
Records == Range(completed)

\* a list of Models without the display names: what fetchModelsByProvider returned
Bare(models) ==
    [i \in DOMAIN models |-> [id |-> models[i].id, connection |-> models[i].connection]]

\* id with the '{connectionId}/' prefix removed
StripPrefix(id, cid) == SubSeq(id, Len(cid) + 2, Len(id))

RECURSIVE SumOver(_, _)
SumOver(f, S) ==
    IF S = {} THEN 0
    ELSE LET x == CHOOSE y \in S : TRUE IN f[x] + SumOver(f, S \ {x})

\* fetch() calls issued so far for the Connection value of c, over all its copies
RequestsForValue(c) ==
    SumOver(reqCount, { d \in Conn : ConnValue(d) = ConnValue(c) })

EnvFailures == { "unreachable", "notjson", "nomodels" }

\* C1: when the endpoint of an 'ollama' connection of the pass is unreachable, the
\* pass ends at once (it is not left waiting) and what it writes, and so the
\* visible catalog, is the empty list, whatever else the list contains.
C1_UnreachableYieldsEmptyCatalog ==
    /\ \A i \in DOMAIN passes : \A j \in DOMAIN passes[i].proms :
           promises[passes[i].proms[j]].env # "unreachable"
    /\ \A rec \in Records :
           (\E j \in DOMAIN rec.conns :
                rec.conns[j].type = "ollama" /\ rec.envs[j] = "unreachable")
           => /\ rec.wrote = <<>>
              /\ availableModels = <<>>

\* a pass over an unreachable 'ollama' connection and a healthy fixed-catalog
\* connection has completed
C1_Witness ==
    \E rec \in Records :
        /\ \E j \in DOMAIN rec.conns :
               rec.conns[j].type = "ollama" /\ rec.envs[j] = "unreachable"
        /\ \E j \in DOMAIN rec.conns :
               rec.conns[j].type \in {"openai", "groq"} /\ rec.sts[j] = "fulfilled"

\* C2: at most one request is ever sent per distinct Connection value, whether
\* later passes receive the identical object or an equal-valued copy.
C2_OneRequestPerValue == \A c \in Conn : RequestsForValue(c) <= 1

\* C3: every published Model's display name is its id with the
\* '{connectionId}/' prefix of its owning connection removed.
C3_NameIsIdWithoutPrefix ==
    \A i \in DOMAIN availableModels :
        availableModels[i].name =
            StripPrefix(availableModels[i].id, availableModels[i].connection.id)

\* C4: every published Model.id starts with its owning connection's id followed
\* by '/', and Models of connections with different ids have different ids.
C4_PrefixedAndUnique ==
    /\ \A i \in DOMAIN availableModels :
           LET m == availableModels[i]
               n == Len(m.connection.id) + 1
           IN Len(m.id) >= n /\ SubSeq(m.id, 1, n) = m.connection.id \o <<"/">>
    /\ \A i, j \in DOMAIN availableModels :
           availableModels[i].connection.id # availableModels[j].connection.id
           => availableModels[i].id # availableModels[j].id

\* C5: for an 'openai' or 'groq' connection fetchModelsByProvider returns exactly
\* the provider's four hardcoded models, in the listed order, each with id
\* '{connectionId}/{modelName}' and the same connection, and sends no request.
C5_FixedCatalogExact ==
    \A p \in DOMAIN promises :
        LET c == promises[p].connection
            M(name) == [id |-> c.id \o <<"/", name>>, connection |-> c]
        IN /\ c.type = "openai" =>
                 /\ promises[p].st = "fulfilled"
                 /\ promises[p].value =
                        << M("gpt-3.5-turbo-0125"), M("gpt-4-turbo"),
                           M("gpt-3.5-turbo"), M("gpt-4o-mini") >>
                 /\ reqCount[c] = 0
           /\ c.type = "groq" =>
                 /\ promises[p].st = "fulfilled"
                 /\ promises[p].value =
                        << M("llama3-8b-8192"), M("llama3-70b-8192"),
                           M("mixtral-8x7b-32768"), M("gemma-7b-it") >>
                 /\ reqCount[c] = 0

\* both fixed-catalog providers have been resolved in one pass
C5_Witness ==
    /\ \E p \in DOMAIN promises : promises[p].connection.type = "openai"
    /\ \E p \in DOMAIN promises : promises[p].connection.type = "groq"

\* C6: when the endpoint of an 'ollama' connection answers with a 'models' list
\* of names n1..nk, the resolution yields exactly k Models, in that order, with
\* ids '{connId}/n1' .. '{connId}/nk', each owned by that connection.
C6_DynamicCatalogExact ==
    \A p \in DOMAIN promises :
        LET c == promises[p].connection
            ns == promises[p].answer
        IN (c.type = "ollama" /\ promises[p].env = "listing") =>
              /\ promises[p].st = "fulfilled"
              /\ Len(promises[p].value) = Len(ns)
              /\ \A i \in DOMAIN ns :
                     promises[p].value[i] =
                         [id |-> c.id \o <<"/">> \o ns[i], connection |-> c]

\* an endpoint has listed two different names
C6_Witness ==
    \E p \in DOMAIN promises :
        /\ promises[p].env = "listing"
        /\ Len(promises[p].answer) = 2
        /\ promises[p].answer[1] # promises[p].answer[2]

\* C7: a connection of an unrecognized type resolves to the empty list, without
\* an error and without a request; a pass whose list contains one, and whose
\* other connections resolve, publishes exactly the models of the others.
C7_UnknownTypeSkipped ==
    /\ \A p \in DOMAIN promises :
           promises[p].connection.type \notin {"openai", "groq", "ollama"}
           => /\ promises[p].st = "fulfilled"
              /\ promises[p].value = <<>>
              /\ reqCount[promises[p].connection] = 0
    /\ \A rec \in Records :
           (/\ \E j \in DOMAIN rec.conns : rec.conns[j].type = "other"
            /\ \A j \in DOMAIN rec.conns : rec.sts[j] # "rejected")
           => /\ rec.outcome = "fulfilled"
              /\ Bare(rec.wrote) =
                     Flat([j \in DOMAIN rec.conns |->
                              IF rec.conns[j].type = "other" THEN <<>>
                              ELSE rec.values[j]])

\* a pass over an unrecognized connection and another one has published the
\* other one's models
C7_Witness ==
    \E rec \in Records :
        /\ \E j \in DOMAIN rec.conns : rec.conns[j].type = "other"
        /\ \E j \in DOMAIN rec.conns : rec.conns[j].type # "other"
        /\ rec.wrote # <<>>
        /\ availableModels = rec.wrote

\* C8: no pass is aborted, and a pass writes its own result when it completes,
\* whatever passes have started since: the catalog is what the pass that
\* completed last wrote, also when that pass is not the newest one.
C8_StaleResultApplied ==
    /\ Len(passes) + Len(completed) = started
    /\ \A rec \in Records : rec.wrote = rec.result
    /\ completed # <<>> => availableModels = completed[Len(completed)].wrote

\* everything has settled, the pass that wrote last was overtaken by a newer
\* one, and the catalog holds a model of a connection that is no longer configured
C8_Witness ==
    /\ passes = <<>>
    /\ ~effectPending
    /\ completed # <<>>
    /\ completed[Len(completed)].gen < started
    /\ completed[Len(completed)].latest > completed[Len(completed)].gen
    /\ availableModels = completed[Len(completed)].wrote
    /\ \E i \in DOMAIN availableModels :
           availableModels[i].connection \notin Range(settings)

\* C9 as stated: a pass writes the catalog only once every one of its
\* per-connection resolutions has settled.
C9_CompletesOnlyWhenAllSettled ==
    \A rec \in Records : \A j \in DOMAIN rec.sts :
        rec.sts[j] \in {"fulfilled", "rejected"}

\* C9 amended: a pass in flight has started every per-connection resolution (and
\* sent every request) and none of them has been rejected; a pass writes models
\* only once every resolution is fulfilled, and writes the empty list as soon as
\* one is rejected, without waiting for the others.
C9_AllStartedFailFast ==
    /\ \A i \in DOMAIN passes :
           /\ Len(passes[i].proms) = Len(passes[i].conns)
           /\ \A j \in DOMAIN passes[i].conns :
                  /\ promises[passes[i].proms[j]].connection = passes[i].conns[j]
                  /\ promises[passes[i].proms[j]].st # "rejected"
                  /\ passes[i].conns[j].type = "ollama"
                     => reqCount[passes[i].conns[j]] >= 1
    /\ \A rec \in Records :
           /\ rec.outcome = "fulfilled"
              => \A j \in DOMAIN rec.sts : rec.sts[j] = "fulfilled"
           /\ rec.outcome = "rejected"
              => /\ \E j \in DOMAIN rec.sts : rec.sts[j] = "rejected"
                 /\ rec.wrote = <<>>
           /\ rec.outcome # "pending"

\* a pass has written the empty list while one of its requests was still unanswered
C9_Witness ==
    \E rec \in Records :
        /\ rec.outcome = "rejected"
        /\ rec.wrote = <<>>
        /\ \E j \in DOMAIN rec.sts : rec.sts[j] \in {"fetching", "reading"}

LatestPassFailed ==
    /\ ~effectPending
    /\ \E rec \in Records : rec.gen = started /\ rec.outcome = "rejected"

\* number of entries of the rendered connection list that are the object c
Occurrences(c) == Cardinality({ i \in DOMAIN settings : settings[i] = c })

\* a change of the settings arms one pass, and a pass starts only by using up
\* that one trigger
C11_OnePassPerTrigger ==
    /\ (effectPending' /\ ~effectPending) => started' = started
    /\ started' # started
           => (started' = started + 1 /\ effectPending /\ ~effectPending')

\* requests are sent only as a pass starts, at most one per 'ollama' entry of
\* its list; no step after that sends one
C11_NoRetry ==
    \A c \in Conn :
        IF started' # started
        THEN /\ reqCount'[c] <= reqCount[c] + Occurrences(c)
             /\ c.type # "ollama" => reqCount'[c] = reqCount[c]
        ELSE reqCount'[c] = reqCount[c]

\* once the newest pass has failed the catalog is empty for as long as the
\* settings do not change
C11_StaysEmpty == LatestPassFailed' => availableModels' = <<>>

\* C11: resolution is fire-once-per-trigger with no retries: every change of the
\* settings starts exactly one pass, a pass sends at most one request per
\* 'ollama' connection of its list, and after a pass has failed no further
\* request is sent and the catalog stays empty until the settings change again.
C11_FireOncePerTrigger ==
    [][C11_OnePassPerTrigger /\ C11_NoRetry /\ C11_StaysEmpty]_vars

====
